---- MODULE Spec2Model ----
(***************************************************************************)
(* A model of src/exa/generated_v1.c: the Dog record (an embedded Animal   *)
(* with a 50-byte name, and a 50-byte secret), its constructor Dog_new,    *)
(* and the three readers Dog_speak, Dog_getSecret and dog_print.           *)
(*                                                                         *)
(* Memory is modelled byte by byte.  A character is its ASCII code, a C    *)
(* string argument is the sequence of its non-NUL bytes (the terminator    *)
(* is implicit), and a Dog is a block of sizeof(Dog) bytes indexed from 0, *)
(* the name field first and the secret field after it.  The block malloc   *)
(* returns holds indeterminate bytes, chosen nondeterministically.         *)
(***************************************************************************)
EXTENDS Integers, Sequences, FiniteSets

\* ------------------------------------------------------------------ bounds

\* Number of heap addresses malloc can hand out.
MaxDogs == 2
\* Number of calls made by the client program.
MaxCalls == 3
\* Input names run up to NameCap - 1 + MaxOver characters.
MaxOver == 2

\* ------------------------------------------------------- program constants

\* The string terminator '\0'.
NUL == 0
\* The null pointer.
NULL == 0
\* sizeof(((Animal*)0)->name)
NameCap == 50
\* sizeof(((Dog*)0)->secret)
SecretCap == 50
\* offsetof(Dog, base.name)
NameOff == 0
\* offsetof(Dog, secret): char arrays need no padding.
SecretOff == NameOff + NameCap
\* sizeof(Dog)
DogSize == SecretOff + SecretCap

\* "dog-secret"
DogSecretLit == <<100, 111, 103, 45, 115, 101, 99, 114, 101, 116>>
\* "Canis familiaris"
SpeciesLit == <<67, 97, 110, 105, 115, 32, 102, 97, 109, 105, 108, 105, 97, 114, 105, 115>>
\* Faulty variant: the format without its line end, "%s says: woof!".
SpeakFmt_NoNewline == <<37, 115, 32, 115, 97, 121, 115, 58, 32, 119, 111, 111, 102, 33>>
\* "%s says: woof!\n"
SpeakFmt == <<37, 115, 32, 115, 97, 121, 115, 58, 32, 119, 111, 111, 102, 33, 10>>
\* Faulty variant: the tag in lower case, "[dog] %s (species=%s)\n".
PrintFmt_LowerTag == <<91, 100, 111, 103, 93, 32, 37, 115, 32, 40, 115, 112, 101, 99, 105,
                       101, 115, 61, 37, 115, 41, 10>>
\* "[Dog] %s (species=%s)\n"
PrintFmt == <<91, 68, 111, 103, 93, 32, 37, 115, 32, 40, 115, 112, 101, 99, 105,
              101, 115, 61, 37, 115, 41, 10>>

\* --------------------------------------------------------------- the state

VARIABLES
    heap,         \* address -> the Dog block allocated there, or Unallocated
    stdout,       \* the bytes written to standard output so far
    Dog_species,  \* the global pointer, as the string it points to
    trace         \* the calls made so far, with arguments and results

vars == <<heap, stdout, Dog_species, trace>>

Addr == 1..MaxDogs
Unallocated == <<>>
Offsets == 0..(DogSize - 1)

Live == {a \in Addr : heap[a] # Unallocated}

\* ------------------------------------------------------------ libc helpers

\* Byte i (from 0) of the C string s, its terminator included.
SrcByte(s, i) == IF i < Len(s) THEN s[i + 1] ELSE NUL

\* The writes of strncpy(dst, src, n), dst at offset off of its block: the
\* first n bytes of src, NUL-padded when src is shorter than n.
strncpy(off, src, n) == [i \in off..(off + n - 1) |-> SrcByte(src, i - off)]

\* The writes of strcpy(dst, src): the bytes of src and its terminator.
strcpy(off, src) == [i \in off..(off + Len(src)) |-> SrcByte(src, i - off)]

\* The write of one byte.
StoreByte(off, b) == [i \in {off} |-> b]

\* Memory mem after the writes w.
Apply(mem, w) == [i \in DOMAIN mem |-> IF i \in DOMAIN w THEN w[i] ELSE mem[i]]

\* The C string that starts at offset i of block mem: the bytes before the
\* first NUL.  (A string with no NUL inside the block would be read past the
\* block; the read is cut at the block's end.)
RECURSIVE CStr(_, _)
CStr(mem, i) ==
    IF i \notin DOMAIN mem THEN <<>>
    ELSE IF mem[i] = NUL THEN <<>>
    ELSE <<mem[i]>> \o CStr(mem, i + 1)

\* printf(fmt, args...) for formats whose only conversion is %s.
RECURSIVE Printf(_, _)
Printf(fmt, args) ==
    IF fmt = <<>> THEN <<>>
    ELSE IF Len(fmt) >= 2 /\ fmt[1] = 37 /\ fmt[2] = 115
         THEN Head(args) \o Printf(SubSeq(fmt, 3, Len(fmt)), Tail(args))
         ELSE <<fmt[1]>> \o Printf(Tail(fmt), args)

\* ---------------------------------------------------------------- inputs

\* A name of n letters, a b c ... z a b ...: position decides the letter.
Fill(n) == [i \in 1..n |-> 97 + ((i - 1) % 26)]

\* "Rex"
Rex == <<82, 101, 120>>

\* "%s": a name that reads as a printf conversion.
PercentS == <<37, 115>>

MaxNameLen == NameCap - 1 + MaxOver

\* The names the client passes: empty, short, and around the capacity.
Names == {<<>>, Rex, PercentS} \cup {Fill(n) : n \in (NameCap - 1)..MaxNameLen}

\* What a fresh malloc block may hold.
GarbageBytes == {NUL, 255}
RawBlocks == {[i \in Offsets |-> g] : g \in GarbageBytes}

\* ------------------------------------------------------------- Dog_new

\* Faulty variant: the count one too small, sizeof(d->base.name) - 2.
NameLimit_OffByOne == NameCap - 2
\* The count passed to strncpy.
NameLimit == NameCap - 1

\* strncpy(d->base.name, name, sizeof(d->base.name) - 1)
CopyName(name) == strncpy(NameOff, name, NameLimit)

\* Faulty variant: the terminator is never stored.
TerminateName_Missing == [i \in {} |-> NUL]
\* d->base.name[sizeof(d->base.name) - 1] = '\0'
TerminateName == StoreByte(NameOff + NameCap - 1, NUL)

\* strcpy(d->secret, "dog-secret")
CopySecret == strcpy(SecretOff, DogSecretLit)

\* The block after the three writes of Dog_new, in program order.
Populate(raw, name) ==
    Apply(Apply(Apply(raw, CopyName(name)), TerminateName), CopySecret)

\* A trace entry: the function called, its arguments (name or d), what malloc
\* returned to it (p), the pointer it returned (ret, and for a pointer into a
\* block the offset off), the offsets its writes to the name field touched
\* (nwr) and the offsets all its writes touched (wr).
Call(op, name, d, p, ret, off, nwr, wr) ==
    [op |-> op, name |-> name, d |-> d, p |-> p, ret |-> ret, off |-> off,
     nwr |-> nwr, wr |-> wr]

\* Faulty variant: the failure path reports "out of memory\n" on standard
\* output before it returns NULL.
DogNewFail_Prints(name) ==
    /\ stdout' = stdout \o <<111, 117, 116, 32, 111, 102, 32, 109, 101, 109, 111, 114, 121, 10>>
    /\ trace' = Append(trace, Call("Dog_new", name, NULL, NULL, NULL, 0, {}, {}))
    /\ UNCHANGED <<heap, Dog_species>>
\* malloc returned NULL: Dog_new returns NULL at once.
DogNewFail(name) ==
    /\ trace' = Append(trace, Call("Dog_new", name, NULL, NULL, NULL, 0, {}, {}))
    /\ UNCHANGED <<heap, stdout, Dog_species>>

\* Faulty variant: the constructor also repoints the global species label at
\* the name it was given.
DogNewOk_SetsSpecies(name, p, raw) ==
    /\ heap' = [heap EXCEPT ![p] = Populate(raw, name)]
    /\ Dog_species' = name
    /\ trace' = Append(trace,
           Call("Dog_new", name, NULL, p, p, 0,
                DOMAIN CopyName(name) \cup DOMAIN TerminateName,
                DOMAIN CopyName(name) \cup DOMAIN TerminateName \cup DOMAIN CopySecret))
    /\ UNCHANGED stdout
\* malloc returned the fresh block p holding raw: populate and return it.
DogNewOk(name, p, raw) ==
    /\ heap' = [heap EXCEPT ![p] = Populate(raw, name)]
    /\ trace' = Append(trace,
           Call("Dog_new", name, NULL, p, p, 0,
                DOMAIN CopyName(name) \cup DOMAIN TerminateName,
                DOMAIN CopyName(name) \cup DOMAIN TerminateName \cup DOMAIN CopySecret))
    /\ UNCHANGED <<stdout, Dog_species>>

\* Faulty variant: the constructor hands out one static record instead of a
\* fresh block.
MallocResults_Static == {NULL} \cup {p \in Addr : \A q \in Addr : p <= q}
\* What malloc(sizeof(Dog)) may return: NULL, or a block that is not in use.
\* Addresses are interchangeable identities (no operation compares or orders
\* them), so of the free blocks the lowest stands for all.
MallocResults == {NULL} \cup {p \in Addr \ Live : \A q \in Addr \ Live : p <= q}

Dog_new(name) ==
    /\ Len(trace) < MaxCalls
    /\ \E p \in MallocResults :
          \/ p = NULL /\ DogNewFail(name)
          \/ p # NULL /\ \E raw \in RawBlocks : DogNewOk(name, p, raw)

\* ------------------------------------------------------------ the readers

\* Faulty variant: the line is built in place, overwriting the start of the
\* record's name.
Dog_speak_Mutates(d) ==
    /\ Len(trace) < MaxCalls
    /\ d \in Live
    /\ stdout' = stdout \o Printf(SpeakFmt, <<CStr(heap[d], NameOff)>>)
    /\ heap' = [heap EXCEPT ![d] = Apply(heap[d], StoreByte(NameOff, 33))]
    /\ trace' = Append(trace, Call("Dog_speak", <<>>, d, NULL, NULL, 0, {}, {}))
    /\ UNCHANGED Dog_species
Dog_speak(d) ==
    /\ Len(trace) < MaxCalls
    /\ d \in Live
    /\ stdout' = stdout \o Printf(SpeakFmt, <<CStr(heap[d], NameOff)>>)
    /\ trace' = Append(trace, Call("Dog_speak", <<>>, d, NULL, NULL, 0, {}, {}))
    /\ UNCHANGED <<heap, Dog_species>>

\* Faulty variant: the getter returns the name field.
SecretPtr_Name == NameOff
\* The pointer Dog_getSecret returns, as an offset into the block of d.
SecretPtr == SecretOff

\* Faulty variant: the getter also prints the secret.
Dog_getSecret_Prints(d) ==
    /\ Len(trace) < MaxCalls
    /\ d \in Live
    /\ stdout' = stdout \o CStr(heap[d], SecretPtr) \o <<10>>
    /\ trace' = Append(trace, Call("Dog_getSecret", <<>>, d, NULL, d, SecretPtr, {}, {}))
    /\ UNCHANGED <<heap, Dog_species>>
Dog_getSecret(d) ==
    /\ Len(trace) < MaxCalls
    /\ d \in Live
    /\ trace' = Append(trace, Call("Dog_getSecret", <<>>, d, NULL, d, SecretPtr, {}, {}))
    /\ UNCHANGED <<heap, stdout, Dog_species>>

dog_print(d) ==
    /\ Len(trace) < MaxCalls
    /\ d \in Live
    /\ stdout' = stdout \o Printf(PrintFmt, <<CStr(heap[d], NameOff), Dog_species>>)
    /\ trace' = Append(trace, Call("dog_print", <<>>, d, NULL, NULL, 0, {}, {}))
    /\ UNCHANGED <<heap, Dog_species>>

\* ------------------------------------------------------- the specification

Init ==
    /\ heap = [a \in Addr |-> Unallocated]
    /\ stdout = <<>>
    /\ Dog_species = SpeciesLit
    /\ trace = <<>>

Next ==
    \/ \E name \in Names : Dog_new(name)
    \/ \E d \in Addr : Dog_speak(d)
    \/ \E d \in Addr : Dog_getSecret(d)
    \/ \E d \in Addr : dog_print(d)

Spec == Init /\ [][Next]_vars

\* ------------------------------------------------------------ properties

Min(a, b) == IF a < b THEN a ELSE b

\* The first n elements of s, or all of s when it is shorter.
Take(s, n) == SubSeq(s, 1, Min(n, Len(s)))

\* The strings the contract names, written out.
ExpSecret == <<100, 111, 103, 45, 115, 101, 99, 114, 101, 116>>
ExpSpecies == <<67, 97, 110, 105, 115, 32, 102, 97, 109, 105, 108, 105, 97, 114, 105, 115>>
ExpWoof == <<32, 115, 97, 121, 115, 58, 32, 119, 111, 111, 102, 33, 10>>
ExpTag == <<91, 68, 111, 103, 93, 32>>
ExpSpeciesTail == <<32, 40, 115, 112, 101, 99, 105, 101, 115, 61, 67, 97, 110, 105, 115,
                    32, 102, 97, 109, 105, 108, 105, 97, 114, 105, 115, 41, 10>>

\* The name and the secret stored in the record at address d of heap h.
NameIn(h, d) == CStr(h[d], 0)
SecretIn(h, d) == CStr(h[d], 50)

Calls == 1..Len(trace)
IsCtor(e) == e.op = "Dog_new"
IsReader(e) == e.op \in {"Dog_speak", "Dog_getSecret", "dog_print"}

\* The name that the record at address d was constructed from.
GivenName(tr, d) ==
    tr[CHOOSE i \in 1..Len(tr) : tr[i].op = "Dog_new" /\ tr[i].ret = d].name

\* This step is a call; Made is its trace entry.
Step == Len(trace') = Len(trace) + 1
Made == trace'[Len(trace')]

\* C1: a successful Dog_new of a name longer than 49 characters leaves a
\* record whose name is the first 49 characters of the input, with the
\* terminator at index 49 and every write to the name field inside its 50
\* bytes; a 50-character input loses exactly its last character; and the call
\* succeeds whenever the allocation does.
C1_Truncates ==
    \A i \in Calls :
        LET e == trace[i] IN
        (IsCtor(e) /\ e.p # NULL /\ Len(e.name) > 49) =>
            /\ e.ret = e.p
            /\ NameIn(heap, e.ret) = SubSeq(e.name, 1, 49)
            /\ Len(NameIn(heap, e.ret)) = 49
            /\ heap[e.ret][49] = 0
            /\ e.nwr \subseteq 0..49
            /\ e.wr \subseteq 0..99
            /\ (Len(e.name) = 50 =>
                    NameIn(heap, e.ret) \o <<e.name[50]>> = e.name)

\* A 50-character and a longer name were both constructed, and a later call
\* was made.
C1_Witness ==
    /\ \E i \in Calls : IsCtor(trace[i]) /\ trace[i].ret # NULL /\ Len(trace[i].name) = 50
    /\ \E i \in Calls : IsCtor(trace[i]) /\ trace[i].ret # NULL /\ Len(trace[i].name) > 50
    /\ IsReader(trace[Len(trace)])

\* C2: a successful Dog_new of a name of 0 to 49 characters leaves a record
\* whose name is the input exactly.
C2_ExactName ==
    \A i \in Calls :
        LET e == trace[i] IN
        (IsCtor(e) /\ e.ret # NULL /\ Len(e.name) <= 49) =>
            NameIn(heap, e.ret) = e.name

\* The empty name and a 49-character name were both constructed, and a later
\* call was made.
C2_Witness ==
    /\ \E i \in Calls : IsCtor(trace[i]) /\ trace[i].ret # NULL /\ trace[i].name = <<>>
    /\ \E i \in Calls : IsCtor(trace[i]) /\ trace[i].ret # NULL /\ Len(trace[i].name) = 49
    /\ IsReader(trace[Len(trace)])

\* C3: in every reachable state the secret of every constructed record is
\* "dog-secret", and the pointer every Dog_getSecret call returned points into
\* the record it was called on, at the string "dog-secret".
C3_Secret ==
    /\ \A i \in Calls :
           (IsCtor(trace[i]) /\ trace[i].ret # NULL) =>
               SecretIn(heap, trace[i].ret) = ExpSecret
    /\ \A i \in Calls :
           LET e == trace[i] IN
           e.op = "Dog_getSecret" =>
               /\ e.ret = e.d
               /\ CStr(heap[e.ret], e.off) = ExpSecret

\* Dog_getSecret was called on a record built from a truncated name, after
\* another reader had run.
C3_Witness ==
    /\ Len(trace) = 3
    /\ IsCtor(trace[1]) /\ trace[1].ret # NULL /\ Len(trace[1].name) > 49
    /\ trace[2].op \in {"Dog_speak", "dog_print"}
    /\ trace[3].op = "Dog_getSecret" /\ trace[3].d = trace[1].ret

\* C4: when malloc returns NULL, Dog_new returns NULL, creates no record,
\* writes nothing and emits nothing; when malloc returns a block, Dog_new
\* returns that block as a record, whatever the name.
C4_AllocFailure ==
    [][(Step /\ IsCtor(Made)) =>
          /\ Made.p = NULL =>
                 /\ Made.ret = NULL
                 /\ Made.wr = {}
                 /\ heap' = heap
                 /\ stdout' = stdout
          /\ Made.p # NULL =>
                 /\ Made.ret = Made.p
                 /\ heap'[Made.ret] # Unallocated]_vars

\* A Dog_new call failed while a record was live and output had been made.
C4_Witness ==
    /\ Len(trace) = 3
    /\ IsCtor(trace[3]) /\ trace[3].ret = NULL
    /\ Live # {}
    /\ stdout # <<>>

\* C5: Dog_speak(d) appends exactly "<name> says: woof!\n" to standard output,
\* <name> being the first 49 characters of the name d was constructed from;
\* for the empty name the line is " says: woof!\n".
C5_Speak ==
    [][(Step /\ Made.op = "Dog_speak") =>
          /\ stdout' = stdout \o Take(GivenName(trace, Made.d), 49) \o ExpWoof
          /\ (GivenName(trace, Made.d) = <<>> => stdout' = stdout \o ExpWoof)]_vars

\* Dog_speak ran on a record built from a truncated name, after other output.
C5_Witness ==
    /\ Len(trace) = 3
    /\ trace[3].op = "Dog_speak"
    /\ Len(GivenName(trace, trace[3].d)) > 49
    /\ trace[2].op = "dog_print"

\* C6: dog_print(d) appends exactly "[Dog] <name> (species=Canis familiaris)\n"
\* to standard output, <name> being the first 49 characters of the name d was
\* constructed from.
C6_Print ==
    [][(Step /\ Made.op = "dog_print") =>
          stdout' = stdout \o ExpTag \o Take(GivenName(trace, Made.d), 49)
                           \o ExpSpeciesTail]_vars

\* dog_print ran on a record built from a truncated name, after other output.
C6_Witness ==
    /\ Len(trace) = 3
    /\ trace[3].op = "dog_print"
    /\ Len(GivenName(trace, trace[3].d)) > 49
    /\ trace[2].op = "Dog_speak"

\* The last n elements of s.
Suffix(s, n) == SubSeq(s, Len(s) - n + 1, Len(s))

\* C7: the species label is "Canis familiaris" before and after every step,
\* and every dog_print call ends its line with that label, whichever record
\* it is given.
C7_Species ==
    [][/\ Dog_species = ExpSpecies
       /\ Dog_species' = ExpSpecies
       /\ (Step /\ Made.op = "dog_print") =>
              /\ Len(stdout') >= Len(stdout) + Len(ExpSpeciesTail)
              /\ Suffix(stdout', Len(ExpSpeciesTail)) = ExpSpeciesTail]_vars

\* Two records with different names exist and dog_print ran on the second.
C7_Witness ==
    /\ Len(trace) = 3
    /\ IsCtor(trace[1]) /\ trace[1].ret # NULL
    /\ IsCtor(trace[2]) /\ trace[2].ret # NULL
    /\ trace[1].name # trace[2].name
    /\ trace[3].op = "dog_print" /\ trace[3].d = trace[2].ret

\* C8: Dog_speak, Dog_getSecret and dog_print leave the heap as it was (every
\* record's name and secret, and the set of records), and Dog_getSecret emits
\* nothing.
C8_ReadersFrame ==
    [][(Step /\ IsReader(Made)) =>
          /\ heap' = heap
          /\ \A a \in Addr : (a \in Live) = (heap'[a] # Unallocated)
          /\ \A a \in Live : /\ NameIn(heap', a) = NameIn(heap, a)
                             /\ SecretIn(heap', a) = SecretIn(heap, a)
          /\ (Made.op = "Dog_getSecret" => stdout' = stdout)]_vars

\* A reader has run while two records were live.
C8_Witness ==
    /\ Cardinality(Live) = 2
    /\ IsReader(trace[Len(trace)])

\* C9: Dog_new emits nothing and leaves every live record as it was; a
\* successful call returns a block that was not live, so every record still
\* holds the (truncated) name it was constructed from.
C9_CtorFrame ==
    [][(Step /\ IsCtor(Made)) =>
          /\ stdout' = stdout
          /\ \A a \in Live : heap'[a] = heap[a]
          /\ Made.ret # NULL =>
                 /\ Made.ret \notin Live
                 /\ heap'[Made.ret] # Unallocated
          /\ \A i \in 1..Len(trace') :
                 (IsCtor(trace'[i]) /\ trace'[i].ret # NULL) =>
                     NameIn(heap', trace'[i].ret) = Take(trace'[i].name, 49)]_vars

\* A second record was constructed, from a different name, after output.
C9_Witness ==
    /\ Len(trace) = 3
    /\ IsCtor(trace[1]) /\ trace[1].ret # NULL
    /\ IsCtor(trace[3]) /\ trace[3].ret # NULL
    /\ trace[1].name # trace[3].name
    /\ stdout # <<>>

\* The line a call contributes to standard output.
ExpLine(tr, e) ==
    IF e.op = "Dog_speak" THEN Take(GivenName(tr, e.d), 49) \o ExpWoof
    ELSE IF e.op = "dog_print"
         THEN ExpTag \o Take(GivenName(tr, e.d), 49) \o ExpSpeciesTail
         ELSE <<>>

\* The lines of the first n calls, in call order.
RECURSIVE ExpOutput(_, _)
ExpOutput(tr, n) ==
    IF n = 0 THEN <<>> ELSE ExpOutput(tr, n - 1) \o ExpLine(tr, tr[n])

\* "Rex says: woof!\n[Dog] Rex (species=Canis familiaris)\n"
RexOutput ==
    <<82, 101, 120, 32, 115, 97, 121, 115, 58, 32, 119, 111, 111, 102, 33, 10,
      91, 68, 111, 103, 93, 32, 82, 101, 120, 32, 40, 115, 112, 101, 99, 105,
      101, 115, 61, 67, 97, 110, 105, 115, 32, 102, 97, 109, 105, 108, 105, 97,
      114, 105, 115, 41, 10>>

RexScenario ==
    /\ Len(trace) = 3
    /\ IsCtor(trace[1]) /\ trace[1].ret # NULL /\ trace[1].name = <<82, 101, 120>>
    /\ trace[2].op = "Dog_speak" /\ trace[2].d = trace[1].ret
    /\ trace[3].op = "dog_print" /\ trace[3].d = trace[1].ret

\* C10: standard output is the concatenation, in call order, of one line per
\* Dog_speak call and one per dog_print call, nothing for Dog_new and
\* Dog_getSecret; Dog_new("Rex"), Dog_speak, dog_print print
\* "Rex says: woof!\n[Dog] Rex (species=Canis familiaris)\n".
C10_Output ==
    /\ stdout = ExpOutput(trace, Len(trace))
    /\ RexScenario => stdout = RexOutput

\* The Rex scenario has run.
C10_Witness == RexScenario /\ stdout # <<>>

====
